---- MODULE Spec2Model ----
(***************************************************************************)
(* Collector of creamcroissant/linux-monitor (server/main.go): the agent   *)
(* registry and the metric store kept in SQLite, the ingestion handler of  *)
(* the WebSocket endpoint, the agents HTTP API, the retention tasks and    *)
(* the alert sweep.  Times are Unix seconds.                               *)
(***************************************************************************)
EXTENDS Integers, Sequences, FiniteSets, Bags, TLC

\* ------------------------------------------------------------------------
\* Bounds of the model
\* ------------------------------------------------------------------------
StartTime == 3000000
MaxFrames == 2
RegistryHorizon == 1
OnlineFrames == 1
QueryFrames == 3
TickLen == 30
OfflineFrames == 3
OfflineHorizon == 150
OverloadFrames == 5
OverloadHorizon == 240
OnlineHorizon == 10
RetentionFrames == 3
RetentionHours == 2
CodecFrames == 2
LinkFrames == 2
LinkHorizon == 120
MainFrames == 2
MainHorizon == 150
RaceFrames == 3
FaultFrames == 3
AgentTicks == 5
ConnsFrames == 3

\* ------------------------------------------------------------------------
\* Program constants
\* ------------------------------------------------------------------------
OnlineThreshold == 10
OfflineThreshold == 30
SweepPeriod == 60
CpuThreshold == 90
OverloadDuration == 600
DefaultLimit == 100
ThirtyDays == 30 * 24 * 60 * 60
SevenDays == 7 * 24 * 60 * 60
CleanupPeriod == 60 * 60
ReadDeadline == 60

\* ------------------------------------------------------------------------
\* Input domains
\* ------------------------------------------------------------------------
AgentIds == {"a1", "a2"}
Conns == {"c1", "c2"}
NullInt == -1

\* c.Request.RemoteAddr of a connection, "host:port"
RemoteAddr(c) ==
    IF c = "c1" THEN [host |-> "10.0.0.1", port |-> "40001"]
                ELSE [host |-> "10.0.0.2", port |-> "40002"]

VARIABLES
    now,             \* wall clock of the collector
    agents,          \* table agents: id -> row
    metrics,         \* table metrics: bag of rows (the autoincrement id is never read)
    hostnameFile,    \* hostname.json: id -> override
    webhooks,        \* webhook.json: sequence of Webhook
    offlineAlerted,  \* map[string]bool
    highLoadStart,   \* map[string]int64
    highLoadAlerted, \* map[string]bool
    fired,           \* notifications composed by alertTask, with the targets posted to
    loadNotes,       \* history: overload notifications fired in the agent's current overload episode
    running,         \* background goroutines started
    nextSweep,       \* wake-up time of alertTask
    nextCleanup,     \* wake-up time of cleanupTask
    agentID,         \* handleWebSocket's local agentID, per connection
    clients,         \* map[string]*websocket.Conn
    pend,            \* frame decoded by a handler whose storeMetrics call is still to run
    frames,          \* number of messages received so far
    response,        \* HTTP response written by the last step, if it was an API call
    encryptionKey,   \* config.EncryptionKey, the key shared by agent and collector
    wire,            \* per connection, the last frame the peer wrote and whether it was read
    deadline,        \* per connection, the read deadline set by conn.SetReadDeadline
    handler,         \* per connection, the position of its handleWebSocket goroutine
    pinger,          \* per connection, its ping goroutine and its heartbeatTicker
    wsConnection,    \* agent: the global connection handle, Nil or a connection
    outbound,        \* agent: connections dialed and not closed
    broken,          \* network: connections whose transport has failed
    reachable,       \* network: the collector accepts a dial
    dials,           \* agent: number of connections dialed so far
    tickNo,          \* agent: number of the next turn of the sampling loop
    delivered,       \* history: turns whose sample WriteMessage has written
    sendResult       \* history: what the last call of sendMetrics went through

vars == <<now, agents, metrics, hostnameFile, webhooks, offlineAlerted,
          highLoadStart, highLoadAlerted, fired, loadNotes, running,
          nextSweep, nextCleanup, agentID, clients, pend, frames, response,
          encryptionKey, wire, deadline, handler, pinger, wsConnection, outbound,
          broken, reachable, dials, tickNo, delivered, sendResult>>

alertVars == <<offlineAlerted, highLoadStart, highLoadAlerted, fired, loadNotes, nextSweep>>
linkVars == <<encryptionKey, wire, deadline, handler>>
agentVars == <<wsConnection, outbound, broken, reachable, dials, tickNo, delivered, sendResult>>
taskVars == <<running, pinger, agentVars>>
connVars == <<agentID, clients, pend, frames, linkVars>>

\* ------------------------------------------------------------------------
\* Helpers for tables
\* ------------------------------------------------------------------------
HasRow(id) == id \in DOMAIN agents

\* rows of a bag that satisfy P's characteristic set S
BagKeep(B, S) == [r \in (DOMAIN B) \cap S |-> B[r]]

SamplesIn(B, id) == {r \in DOMAIN B : r.agent_id = id}

SamplesOf(id) == SamplesIn(metrics, id)

\* one element per stored row: <<row, copy number>>
RowCopies(S) == UNION {{<<r, i>> : i \in 1..metrics[r]} : r \in S}

NoResponse == [op |-> "none", status |-> 0, id |-> "", nil |-> TRUE, body |-> <<>>, count |-> 0]

\* ------------------------------------------------------------------------
\* Ingestion: handleAgentMessage, updateAgentInfo, storeMetrics
\* ------------------------------------------------------------------------
\* A message is empty, undecodable, or decodes to a SystemMetrics snapshot
\* [agent_id, timestamp, cpu_usage, hostname, platform]; the other numeric
\* fields of a snapshot are copied to the row like cpu_usage and are left out.
EmptyMessage == [kind |-> "empty"]
GarbageMessage == [kind |-> "garbage"]
Snapshot(id, ts, cpu, host, plat) ==
    [kind |-> "snapshot", agent_id |-> id, timestamp |-> ts, cpu_usage |-> cpu,
     hostname |-> host, platform |-> plat]

\* UPDATE agents SET last_seen = ? WHERE id = ?
TouchLastSeen(tbl, id, t) ==
    IF id # "" /\ id \in DOMAIN tbl THEN [tbl EXCEPT ![id].last_seen = t] ELSE tbl

HostnameOverride(id) ==
    IF id \in DOMAIN hostnameFile /\ hostnameFile[id] # "" THEN hostnameFile[id] ELSE ""

EffectiveHostname(id, reported) ==
    LET h == IF HostnameOverride(id) # "" THEN HostnameOverride(id) ELSE reported
    IN  IF h = "" THEN "unknown-host" ELSE h

EffectivePlatform(reported) == IF reported = "" THEN "Unknown" ELSE reported

\* ipAddress[:strings.LastIndex(ipAddress, ":")]
StripPort(addr) == addr.host

NullText == "<NULL>"

UpsertNameOverwrite(old, hostname) == hostname

\* name = COALESCE(name, ?)
UpsertName(old, hostname) == IF old # NullText THEN old ELSE hostname

UpdateAgentInfoSkip(tbl, id, m, addr, t) == tbl

\* updateAgentInfo: INSERT when the SELECT finds no row, UPDATE otherwise
UpdateAgentInfo(tbl, id, m, addr, t) ==
    LET hostname == EffectiveHostname(id, m.hostname)
        platform == EffectivePlatform(m.platform)
    IN  IF id \notin DOMAIN tbl
        THEN tbl @@ (id :> [name |-> hostname, last_seen |-> t, hostname |-> hostname,
                            platform |-> platform, ip_address |-> StripPort(addr),
                            created_at |-> t, updated_at |-> t])
        ELSE [tbl EXCEPT ![id] = [name |-> UpsertName(@.name, hostname), last_seen |-> t,
                                  hostname |-> hostname, platform |-> platform,
                                  ip_address |-> StripPort(addr),
                                  created_at |-> @.created_at, updated_at |-> t]]

HandleAgentMessageAnyId(c, m) ==
    /\ LET touched == TouchLastSeen(agents, agentID[c], now)
           routed == m.kind = "snapshot"
       IN  IF routed
           THEN /\ agentID' = [agentID EXCEPT ![c] = m.agent_id]
                /\ clients' = [x \in (DOMAIN clients) \cup {m.agent_id} |->
                                  IF x = m.agent_id THEN c ELSE clients[x]]
                /\ agents' = UpdateAgentInfo(touched, m.agent_id, m, RemoteAddr(c), now)
                /\ pend' = pend @@ (c :> m)
           ELSE /\ agents' = touched
                /\ UNCHANGED <<agentID, clients, pend>>

\* one message read by the handler of connection c, up to the call of storeMetrics;
\* cap bounds the number of messages of a run
\* handleAgentMessage of connection c on a message that decodes to m
HandleAgentMessage(c, m) ==
    /\ LET touched == TouchLastSeen(agents, agentID[c], now)
           routed == m.kind = "snapshot" /\ m.agent_id # ""
       IN  IF routed
           THEN /\ agentID' = [agentID EXCEPT ![c] = m.agent_id]
                /\ clients' = [x \in (DOMAIN clients) \cup {m.agent_id} |->
                                  IF x = m.agent_id THEN c ELSE clients[x]]
                /\ agents' = UpdateAgentInfo(touched, m.agent_id, m, RemoteAddr(c), now)
                /\ pend' = pend @@ (c :> m)
           ELSE /\ agents' = touched
                /\ UNCHANGED <<agentID, clients, pend>>

Receive(c, m, cap) ==
    /\ frames < cap
    /\ c \notin DOMAIN pend
    /\ frames' = frames + 1
    /\ HandleAgentMessage(c, m)
    /\ UNCHANGED <<now, metrics, hostnameFile, webhooks, alertVars, taskVars, nextCleanup,
                   linkVars>>
    /\ response' = NoResponse

SampleTimestamp(m, t) == IF m.timestamp = 0 THEN t ELSE m.timestamp

\* DELETE FROM metrics WHERE timestamp < ?
PurgeOlderThan(B, cutoff) == BagKeep(B, {r \in DOMAIN B : r.timestamp >= cutoff})

AppendHorizon == ThirtyDays

\* storeMetrics: nothing is stored for a record without an id
StoreMetrics(B, m, t) ==
    LET row == [agent_id |-> m.agent_id, timestamp |-> SampleTimestamp(m, t),
                cpu_usage |-> m.cpu_usage]
    IN  IF m.agent_id = "" THEN B
        ELSE PurgeOlderThan(B (+) SetToBag({row}), t - AppendHorizon)

\* the storeMetrics call that ends the handling of a routed frame
Store(c) ==
    /\ c \in DOMAIN pend
    /\ metrics' = StoreMetrics(metrics, pend[c], now)
    /\ pend' = [x \in (DOMAIN pend) \ {c} |-> pend[x]]
    /\ UNCHANGED <<now, agents, hostnameFile, webhooks, alertVars, taskVars, nextCleanup,
                   agentID, clients, frames, linkVars>>
    /\ response' = NoResponse

\* ------------------------------------------------------------------------
\* Retention: cleanupTask
\* ------------------------------------------------------------------------
CleanupHorizon == SevenDays

Cleanup ==
    /\ "cleanup" \in running
    /\ now >= nextCleanup
    /\ metrics' = PurgeOlderThan(metrics, now - CleanupHorizon)
    /\ nextCleanup' = now + CleanupPeriod
    /\ UNCHANGED <<now, agents, hostnameFile, webhooks, offlineAlerted, highLoadStart,
                   highLoadAlerted, fired, loadNotes, taskVars, nextSweep, connVars>>
    /\ response' = NoResponse

\* ------------------------------------------------------------------------
\* Time
\* ------------------------------------------------------------------------
\* d seconds pass; a background task whose sleep is over runs before more time passes
Tick(d, limit) ==
    /\ now + d <= limit
    /\ "alert" \in running => now < nextSweep
    /\ "cleanup" \in running => now < nextCleanup
    /\ now' = now + d
    /\ UNCHANGED <<agents, metrics, hostnameFile, webhooks, alertVars, taskVars, nextCleanup,
                   connVars>>
    /\ response' = NoResponse

\* ------------------------------------------------------------------------
\* Alert sweep: alertTask
\* ------------------------------------------------------------------------
\* _ = rows.Scan(..., &lastSeenUnix): a NULL last_seen leaves the zero value
LastSeenForAlert(row) == IF row.last_seen = NullInt THEN 0 ELSE row.last_seen

\* time.Since(agent.LastSeen) > 30*time.Second
IsOffline(lastSeen, t) == t - lastSeen > OfflineThreshold

OfflineFiresAlways(offline, alerted) == offline

\* if offline { if !offlineAlerted[agent.ID] { ... } }
OfflineFires(offline, alerted) == offline /\ ~alerted

\* offlineAlerted[agent.ID] after the offline branch
OfflineMark(offline, alerted) == offline

\* SELECT timestamp, cpu_usage ... ORDER BY timestamp DESC LIMIT 1, scanned into
\* zero-valued ts and cpu; rows of equal timestamp come in an order SQL leaves open
LatestSamples(id) ==
    IF SamplesOf(id) = {} THEN {[ts |-> 0, cpu |-> 0]}
    ELSE {[ts |-> r.timestamp, cpu |-> r.cpu_usage] :
            r \in {x \in SamplesOf(id) : \A y \in SamplesOf(id) : y.timestamp <= x.timestamp}}

\* cpu > 90
IsHighLoad(cpu) == cpu > CpuThreshold

WindowStartKept(high, start, ts) == IF start = 0 THEN (IF high THEN ts ELSE 0) ELSE start

\* highLoadStart[agent.ID] after the sweep
WindowStart(high, start, ts) == IF high THEN (IF start = 0 THEN ts ELSE start) ELSE 0

OverloadFiresEarly(high, start, ts, alerted) == high /\ ~alerted

\* ts-highLoadStart[agent.ID] >= 600 && !highLoadAlerted[agent.ID]
OverloadFires(high, start, ts, alerted) ==
    high /\ ts - WindowStart(high, start, ts) >= OverloadDuration /\ ~alerted

OverloadMarkSticky(high, start, ts, alerted) ==
    alerted \/ OverloadFires(high, start, ts, alerted)

\* highLoadAlerted[agent.ID] after the sweep
OverloadMark(high, start, ts, alerted) ==
    IF high THEN alerted \/ OverloadFires(high, start, ts, alerted) ELSE FALSE

\* targets that get a request: wh.Enabled && wh.Type == "serverchan" && wh.SendKey != ""
Posted(hooks) ==
    {i \in 1..Len(hooks) :
        hooks[i].enabled /\ hooks[i].type = "serverchan" /\ hooks[i].sendkey # ""}

Notification(kind, id, t) == [kind |-> kind, agent |-> id, at |-> t, to |-> Posted(webhooks)]

\* one pass of the loop body of alertTask over all rows of agents
AlertSweep ==
    /\ "alert" \in running
    /\ now >= nextSweep
    /\ \E pick \in {f \in [DOMAIN agents -> UNION {LatestSamples(a) : a \in DOMAIN agents}] :
                        \A a \in DOMAIN agents : f[a] \in LatestSamples(a)} :
         LET offline(a) == IsOffline(LastSeenForAlert(agents[a]), now)
             high(a) == IsHighLoad(pick[a].cpu)
             offFires(a) == OfflineFires(offline(a), offlineAlerted[a])
             loadFires(a) == OverloadFires(high(a), highLoadStart[a], pick[a].ts,
                                           highLoadAlerted[a])
         IN  /\ offlineAlerted' = [a \in AgentIds |->
                    IF HasRow(a) THEN OfflineMark(offline(a), offlineAlerted[a])
                                 ELSE offlineAlerted[a]]
             /\ highLoadStart' = [a \in AgentIds |->
                    IF HasRow(a) THEN WindowStart(high(a), highLoadStart[a], pick[a].ts)
                                 ELSE highLoadStart[a]]
             /\ highLoadAlerted' = [a \in AgentIds |->
                    IF HasRow(a) THEN OverloadMark(high(a), highLoadStart[a], pick[a].ts,
                                                   highLoadAlerted[a])
                                 ELSE highLoadAlerted[a]]
             /\ fired' = fired
                    \cup {Notification("offline", a, now) : a \in {x \in DOMAIN agents : offFires(x)}}
                    \cup {Notification("overload", a, now) : a \in {x \in DOMAIN agents : loadFires(x)}}
             /\ loadNotes' = [a \in AgentIds |->
                    IF ~HasRow(a) THEN loadNotes[a]
                    ELSE IF pick[a].cpu > 90
                         THEN loadNotes[a] + (IF loadFires(a) THEN 1 ELSE 0)
                         ELSE 0]
    /\ nextSweep' = now + SweepPeriod
    /\ UNCHANGED <<now, agents, metrics, hostnameFile, webhooks, taskVars, nextCleanup,
                   connVars>>
    /\ response' = NoResponse

\* ------------------------------------------------------------------------
\* Agents API: getAgents, getAgentByID, updateAgent, deleteAgent
\* ------------------------------------------------------------------------
IsOnlineWithin(lastSeen, t) == lastSeen # NullInt /\ t - lastSeen <= OnlineThreshold

\* lastSeenUnix.Valid && time.Since(agent.LastSeen) < 10*time.Second
IsOnline(lastSeen, t) == lastSeen # NullInt /\ t - lastSeen < OnlineThreshold

\* the Agent object written for one row
AgentView(id, t) ==
    LET row == agents[id]
    IN  [id |-> id,
         name |-> IF row.name = "" THEN row.hostname ELSE row.name,
         hostname |-> row.hostname,
         platform |-> IF row.platform = "" THEN "Unknown" ELSE row.platform,
         ip_address |-> row.ip_address,
         last_seen |-> IF row.last_seen = NullInt THEN 0 ELSE row.last_seen,
         is_online |-> IsOnline(row.last_seen, t),
         created_at |-> row.created_at,
         updated_at |-> row.updated_at]

\* ORDER BY created_at DESC
RECURSIVE AgentsDesc(_)
AgentsDesc(S) ==
    IF S = {} THEN {<<>>}
    ELSE UNION {{<<AgentView(a, now)>> \o rest : rest \in AgentsDesc(S \ {a})} :
                  a \in {x \in S : \A y \in S : agents[y].created_at <= agents[x].created_at}}

GetAgents ==
    /\ \E body \in AgentsDesc(DOMAIN agents) :
         response' = [op |-> "list", status |-> 200, id |-> "",
                      nil |-> (body = <<>>), body |-> body, count |-> 0]
    /\ UNCHANGED <<now, agents, metrics, hostnameFile, webhooks, alertVars, taskVars,
                   nextCleanup, connVars>>

GetAgentByID(id) ==
    /\ response' = IF HasRow(id)
                   THEN [op |-> "get", status |-> 200, id |-> id, nil |-> FALSE,
                         body |-> <<AgentView(id, now)>>, count |-> 0]
                   ELSE [op |-> "get", status |-> 404, id |-> id, nil |-> FALSE, body |-> <<>>,
                         count |-> 0]
    /\ UNCHANGED <<now, agents, metrics, hostnameFile, webhooks, alertVars, taskVars,
                   nextCleanup, connVars>>

\* UPDATE agents SET name = ?, hostname = ?, updated_at = ? WHERE id = ?
RenamedRow(row, name, hostname, t) ==
    [row EXCEPT !.name = name, !.hostname = hostname, !.updated_at = t]

\* PUT agents/{id} with body {name, hostname}; a field left out of the body is ""
UpdateAgent(id, name, hostname) ==
    /\ IF ~HasRow(id)
       THEN /\ response' = [op |-> "rename", status |-> 404, id |-> id, nil |-> FALSE,
                            body |-> <<>>, count |-> 0]
            /\ UNCHANGED <<agents, hostnameFile>>
       ELSE /\ agents' = [agents EXCEPT ![id] = RenamedRow(@, name, hostname, now)]
            /\ hostnameFile' =
                   IF hostname # ""
                   THEN [x \in (DOMAIN hostnameFile) \cup {id} |->
                           IF x = id THEN hostname ELSE hostnameFile[x]]
                   ELSE hostnameFile
            /\ response' = [op |-> "rename", status |-> 200, id |-> id, nil |-> FALSE,
                            body |-> <<>>, count |-> 0]
    /\ UNCHANGED <<now, metrics, webhooks, alertVars, taskVars, nextCleanup, connVars>>

DeleteMetricsOfNone(B, id) == B

\* tx.Exec("DELETE FROM metrics WHERE agent_id = ?")
DeleteMetricsOf(B, id) == BagKeep(B, {r \in DOMAIN B : r.agent_id # id})

\* DELETE agents/{id}: both deletes in one committed transaction
DeleteAgent(id) ==
    /\ IF ~HasRow(id)
       THEN /\ response' = [op |-> "delete", status |-> 404, id |-> id, nil |-> FALSE,
                            body |-> <<>>, count |-> 0]
            /\ UNCHANGED <<agents, metrics>>
       ELSE /\ metrics' = DeleteMetricsOf(metrics, id)
            /\ agents' = [x \in (DOMAIN agents) \ {id} |-> agents[x]]
            /\ response' = [op |-> "delete", status |-> 200, id |-> id, nil |-> FALSE,
                            body |-> <<>>,
                            count |-> BagCardinality(metrics)
                                      - BagCardinality(DeleteMetricsOf(metrics, id))]
    /\ UNCHANGED <<now, hostnameFile, webhooks, alertVars, taskVars, nextCleanup, connVars>>

\* ------------------------------------------------------------------------
\* Metrics API: getAgentMetrics
\* ------------------------------------------------------------------------
\* Query parameters are texts, sequences of characters; a parameter may be absent.
DigitVal == [ch \in {"0", "1", "2", "3", "4", "5", "6", "7", "8", "9"} |->
               CASE ch = "0" -> 0 [] ch = "1" -> 1 [] ch = "2" -> 2 [] ch = "3" -> 3
                 [] ch = "4" -> 4 [] ch = "5" -> 5 [] ch = "6" -> 6 [] ch = "7" -> 7
                 [] ch = "8" -> 8 [] ch = "9" -> 9]

DigitChar == <<"0", "1", "2", "3", "4", "5", "6", "7", "8", "9">>

RECURSIVE DigitsValue(_)
DigitsValue(s) ==
    IF s = <<>> THEN 0
    ELSE 10 * DigitsValue(SubSeq(s, 1, Len(s) - 1)) + DigitVal[s[Len(s)]]

\* strconv.ParseInt(s, 10, 64) and strconv.Atoi(s): optional sign, then digits only
ParseInt(s) ==
    LET signed == Len(s) > 0 /\ s[1] \in {"+", "-"}
        ds == IF signed THEN Tail(s) ELSE s
    IN  IF ds = <<>> \/ \E i \in 1..Len(ds) : ds[i] \notin DOMAIN DigitVal
        THEN [ok |-> FALSE, val |-> 0]
        ELSE [ok |-> TRUE, val |-> IF signed /\ s[1] = "-" THEN 0 - DigitsValue(ds)
                                                             ELSE DigitsValue(ds)]

\* fmt.Sprintf("%d", n) for n >= 0
RECURSIVE FormatInt(_)
FormatInt(n) ==
    IF n < 10 THEN <<DigitChar[n + 1]>>
    ELSE FormatInt(n \div 10) \o <<DigitChar[(n % 10) + 1]>>

Absent == [present |-> FALSE, text |-> <<>>]
Given(text) == [present |-> TRUE, text |-> text]

\* c.DefaultQuery(key, def)
DefaultQuery(param, def) == IF param.present THEN param.text ELSE def

\* limit, err := strconv.Atoi(limitStr); if err != nil || limit <= 0 { limit = 100 }
LimitOf(text) ==
    IF ~ParseInt(text).ok \/ ParseInt(text).val <= 0 THEN DefaultLimit ELSE ParseInt(text).val

\* WHERE agent_id = ? AND timestamp >= ? AND timestamp <= ?
InRange(r, id, from, to) == r.agent_id = id /\ r.timestamp >= from /\ r.timestamp <= to

SampleView(r) == [timestamp |-> r.timestamp, cpu_usage |-> r.cpu_usage]

\* ORDER BY timestamp DESC over the copies of the rows in S
RECURSIVE SamplesDesc(_)
SamplesDesc(S) ==
    IF S = {} THEN {<<>>}
    ELSE UNION {{<<SampleView(c[1])>> \o rest : rest \in SamplesDesc(S \ {c})} :
                  c \in {x \in S : \A y \in S : y[1].timestamp <= x[1].timestamp}}

TakeAll(s, n) == s

\* LIMIT ?
Take(s, n) == IF Len(s) <= n THEN s ELSE SubSeq(s, 1, n)

\* c.JSON(http.StatusOK, []map[string]interface{}{}): written as []
EmptyArray == [nil |-> FALSE, body |-> <<>>]

\* c.JSON(http.StatusOK, metrics) of "var metrics []map[string]interface{}":
\* a slice nothing was appended to is nil and is written as null
SliceJSON(rows) == [nil |-> (rows = <<>>), body |-> rows]

QueryResponse(id, json, req) ==
    [op |-> "query", status |-> 200, id |-> id, nil |-> json.nil, body |-> json.body,
     count |-> 0, req |-> req]

GetAgentMetrics(id, fromP, toP, limitP) ==
    /\ LET from == ParseInt(DefaultQuery(fromP, <<"0">>))
           to == ParseInt(DefaultQuery(toP, FormatInt(now)))
           limit == LimitOf(DefaultQuery(limitP, <<"1", "0", "0">>))
           req == [from |-> fromP, to |-> toP, limit |-> limitP]
           bad == [op |-> "query", status |-> 400, id |-> id, nil |-> FALSE, body |-> <<>>,
                   count |-> 0, req |-> req]
           missing == [op |-> "query", status |-> 404, id |-> id, nil |-> FALSE,
                       body |-> <<>>, count |-> 0, req |-> req]
       IN  IF ~from.ok \/ ~to.ok THEN response' = bad
           ELSE IF ~HasRow(id) THEN response' = missing
           ELSE IF SamplesOf(id) = {} THEN response' = QueryResponse(id, EmptyArray, req)
           ELSE IF {r \in DOMAIN metrics : InRange(r, id, from.val, to.val)} = {}
                THEN response' = QueryResponse(id, EmptyArray, req)
           ELSE \E rows \in SamplesDesc(RowCopies({r \in DOMAIN metrics :
                                                     InRange(r, id, from.val, to.val)})) :
                   response' = QueryResponse(id,
                                  IF Len(Take(rows, limit)) = 0 THEN EmptyArray
                                  ELSE SliceJSON(Take(rows, limit)), req)
    /\ UNCHANGED <<now, agents, metrics, hostnameFile, webhooks, alertVars, taskVars,
                   nextCleanup, connVars>>

\* ------------------------------------------------------------------------
\* Transport codec: json.Marshal and encrypt of the agent, decrypt and
\* json.Unmarshal of the collector.  A frame is a sequence of bytes.
\* ------------------------------------------------------------------------
BlockSize == 16
KeySize == 32

\* UTF-8 bytes of the texts that snapshots of the model carry
Ascii ==
    ("" :> <<>>) @@
    ("a1" :> <<97, 49>>) @@
    ("a2" :> <<97, 50>>) @@
    ("web-1" :> <<119, 101, 98, 45, 49>>) @@
    ("web-2" :> <<119, 101, 98, 45, 50>>) @@
    ("linux" :> <<108, 105, 110, 117, 120>>)

LBrace == 123
RBrace == 125
Comma == 44
Quote == 34

Quoted(s) == <<Quote>> \o Ascii[s] \o <<Quote>>

Decimal(n) == [i \in 1..Len(FormatInt(n)) |-> 48 + DigitVal[FormatInt(n)[i]]]

\* json.Marshal(metrics): the fields the collector reads, in declaration order
Marshal(x) ==
    <<LBrace>> \o Quoted(x.agent_id) \o <<Comma>> \o Decimal(x.timestamp) \o <<Comma>>
        \o Decimal(x.cpu_usage) \o <<Comma>> \o Quoted(x.hostname) \o <<Comma>>
        \o Quoted(x.platform) \o <<RBrace>>

\* the values between the commas of b
RECURSIVE Fields(_)
Fields(b) ==
    IF \A i \in 1..Len(b) : b[i] # Comma THEN <<b>>
    ELSE LET k == CHOOSE i \in 1..Len(b) : b[i] = Comma /\ \A j \in 1..(i - 1) : b[j] # Comma
         IN  <<SubSeq(b, 1, k - 1)>> \o Fields(SubSeq(b, k + 1, Len(b)))

ParseText(f) ==
    IF Len(f) >= 2 /\ f[1] = Quote /\ f[Len(f)] = Quote
          /\ \E s \in DOMAIN Ascii : Ascii[s] = SubSeq(f, 2, Len(f) - 1)
    THEN [ok |-> TRUE, val |-> CHOOSE s \in DOMAIN Ascii : Ascii[s] = SubSeq(f, 2, Len(f) - 1)]
    ELSE [ok |-> FALSE, val |-> ""]

RECURSIVE DecimalValue(_)
DecimalValue(f) ==
    IF f = <<>> THEN 0 ELSE 10 * DecimalValue(SubSeq(f, 1, Len(f) - 1)) + (f[Len(f)] - 48)

ParseNumber(f) ==
    IF Len(f) >= 1 /\ \A i \in 1..Len(f) : f[i] \in 48..57
    THEN [ok |-> TRUE, val |-> DecimalValue(f)]
    ELSE [ok |-> FALSE, val |-> 0]

\* json.Unmarshal(b, &metrics): an object with the fields of a snapshot, or the
\* empty object, which leaves metrics zero-valued; anything else is an error
Unmarshal(b) ==
    LET zero == Snapshot("", 0, 0, "", "")
        fs == Fields(SubSeq(b, 2, Len(b) - 1))
    IN  IF Len(b) < 2 \/ b[1] # LBrace \/ b[Len(b)] # RBrace THEN [ok |-> FALSE, val |-> zero]
        ELSE IF Len(b) = 2 THEN [ok |-> TRUE, val |-> zero]
        ELSE IF Len(fs) # 5 THEN [ok |-> FALSE, val |-> zero]
        ELSE IF ParseText(fs[1]).ok /\ ParseNumber(fs[2]).ok /\ ParseNumber(fs[3]).ok
                   /\ ParseText(fs[4]).ok /\ ParseText(fs[5]).ok
             THEN [ok |-> TRUE,
                   val |-> Snapshot(ParseText(fs[1]).val, ParseNumber(fs[2]).val,
                                    ParseNumber(fs[3]).val, ParseText(fs[4]).val,
                                    ParseText(fs[5]).val)]
             ELSE [ok |-> FALSE, val |-> zero]

\* keyBytes cut to 32 bytes or padded with zero bytes to 32
NormalizeKey(key) ==
    IF Len(key) > KeySize THEN SubSeq(key, 1, KeySize)
    ELSE key \o [i \in 1..(KeySize - Len(key)) |-> 0]

\* a ^ b on bytes
RECURSIVE Xor(_, _)
Xor(a, b) ==
    IF a = 0 THEN b
    ELSE IF b = 0 THEN a
    ELSE ((a + b) % 2) + 2 * Xor(a \div 2, b \div 2)

\* the block function of aes.NewCipher(keyBytes): a keyed map of 16-byte blocks
\* that stands for AES-256, of which CFB uses the forward direction alone
BlockEncrypt(K, B) ==
    [i \in 1..BlockSize |->
        (5 * B[i] + 7 * B[(i % BlockSize) + 1] + K[i] + 3 * K[i + BlockSize] + 11 * i) % 256]

\* XORKeyStream of cipher.NewCFBEncrypter (decrypting = FALSE) and of
\* cipher.NewCFBDecrypter (TRUE): the key stream of a block is the block
\* function of the previous ciphertext block, the first being the IV
RECURSIVE XORKeyStream(_, _, _, _)
XORKeyStream(K, prev, data, decrypting) ==
    IF data = <<>> THEN <<>>
    ELSE LET n == IF Len(data) < BlockSize THEN Len(data) ELSE BlockSize
             ks == BlockEncrypt(K, prev)
             out == [i \in 1..n |-> Xor(data[i], ks[i])]
             fed == IF decrypting THEN SubSeq(data, 1, n) ELSE out
         IN  out \o XORKeyStream(K, fed, SubSeq(data, n + 1, Len(data)), decrypting)

\* encrypt of the agent: iv || CFB(data)
Encrypt(data, key, iv) == iv \o XORKeyStream(NormalizeKey(key), iv, data, FALSE)

DecryptWholeFrame(data, key) ==
    IF Len(data) < BlockSize THEN [ok |-> FALSE, data |-> <<>>]
    ELSE [ok |-> TRUE,
          data |-> XORKeyStream(NormalizeKey(key), SubSeq(data, 1, BlockSize), data, TRUE)]

\* decrypt of the collector: an error below 16 bytes, else the IV is the first
\* block and the rest is decrypted
Decrypt(data, key) ==
    IF Len(data) < BlockSize THEN [ok |-> FALSE, data |-> <<>>]
    ELSE [ok |-> TRUE,
          data |-> XORKeyStream(NormalizeKey(key), SubSeq(data, 1, BlockSize),
                                SubSeq(data, BlockSize + 1, Len(data)), TRUE)]

DecodeDecryptFirst(message, key) ==
    IF Len(message) = 0 THEN EmptyMessage
    ELSE IF ~Decrypt(message, key).ok THEN GarbageMessage
    ELSE IF ~Unmarshal(Decrypt(message, key).data).ok THEN GarbageMessage
    ELSE Unmarshal(Decrypt(message, key).data).val

\* handleAgentMessage up to the decoded metrics: plaintext parse first, then
\* decrypt and parse; a failure of either ends the call
Decode(message, key) ==
    IF Len(message) = 0 THEN EmptyMessage
    ELSE IF Unmarshal(message).ok THEN Unmarshal(message).val
    ELSE IF ~Decrypt(message, key).ok THEN GarbageMessage
    ELSE IF ~Unmarshal(Decrypt(message, key).data).ok THEN GarbageMessage
    ELSE Unmarshal(Decrypt(message, key).data).val

\* ------------------------------------------------------------------------
\* Connections: what the peer writes and the read loop of handleWebSocket
\* ------------------------------------------------------------------------
Frame(type, bytes, x) == [type |-> type, bytes |-> bytes, read |-> FALSE, x |-> x]

\* the peer writes when its previous frame has been taken off the connection
CanWrite(c) == handler[c] = "read" /\ wire[c].read

Write(c, f) ==
    /\ CanWrite(c)
    /\ wire' = [wire EXCEPT ![c] = f]
    /\ UNCHANGED <<now, agents, metrics, hostnameFile, webhooks, alertVars, taskVars,
                   nextCleanup, agentID, clients, pend, frames, encryptionKey, deadline,
                   handler>>
    /\ response' = NoResponse

\* sendMetrics of the agent: json.Marshal, encrypt with a fresh IV, one binary message
SendMetrics(c, x, iv) == Write(c, Frame("binary", Encrypt(Marshal(x), encryptionKey, iv), x))

\* a peer that writes the record as a text message without encrypting it
SendText(c, x) == Write(c, Frame("text", Marshal(x), x))

\* a peer that writes bytes that are no record
SendRaw(c, b) ==
    Write(c, Frame("binary", b, IF b = <<>> THEN EmptyMessage ELSE GarbageMessage))

\* the ping the agent writes before each send and the pong it answers pings with
SendControl(c, type) == Write(c, Frame(type, <<>>, EmptyMessage))

\* the peer closes the connection
PeerClose(c) == Write(c, Frame("close", <<>>, EmptyMessage))

LoopAfterStrict(m) == IF m.kind = "garbage" THEN "closed" ELSE "read"

\* the read loop after handleAgentMessage returns: it reads the next message
LoopAfter(m) == "read"

\* the set of entries delete(clients, agentID) leaves
DeleteClient(map, id) == [x \in (DOMAIN map) \ {id} |-> map[x]]

\* one turn of the read loop on a text or binary message: SetReadDeadline,
\* ReadMessage, handleAgentMessage
ReadMessage(c, cap) ==
    /\ handler[c] = "read"
    /\ ~wire[c].read
    /\ wire[c].type \in {"text", "binary"}
    /\ now < deadline[c]
    /\ frames < cap
    /\ c \notin DOMAIN pend
    /\ frames' = frames + 1
    /\ HandleAgentMessage(c, Decode(wire[c].bytes, encryptionKey))
    /\ wire' = [wire EXCEPT ![c].read = TRUE]
    /\ deadline' = [deadline EXCEPT ![c] = now + ReadDeadline]
    /\ handler' = [handler EXCEPT ![c] = LoopAfter(Decode(wire[c].bytes, encryptionKey))]
    /\ UNCHANGED <<now, metrics, hostnameFile, webhooks, alertVars, taskVars, nextCleanup,
                   encryptionKey>>
    /\ response' = NoResponse

\* the deadline of c after a control frame: neither handler calls SetReadDeadline
ControlDeadline(dl, c, t) == dl

\* a ping or pong arrives: ReadMessage runs the ping or pong handler and goes on
\* reading without returning to the loop
ReadControl(c) ==
    /\ handler[c] = "read"
    /\ ~wire[c].read
    /\ wire[c].type \in {"ping", "pong"}
    /\ now < deadline[c]
    /\ wire' = [wire EXCEPT ![c].read = TRUE]
    /\ deadline' = ControlDeadline(deadline, c, now)
    /\ UNCHANGED <<now, agents, metrics, hostnameFile, webhooks, alertVars, taskVars,
                   nextCleanup, agentID, clients, pend, frames, encryptionKey, handler>>
    /\ response' = NoResponse

\* ReadMessage returns an error, the deadline has passed or the peer has closed:
\* the loop breaks, the id is deleted from clients, and the deferred calls stop
\* heartbeatTicker and close the connection
ReadFails(c) ==
    /\ handler[c] = "read"
    /\ now >= deadline[c] \/ (~wire[c].read /\ wire[c].type = "close")
    /\ handler' = [handler EXCEPT ![c] = "closed"]
    /\ clients' = IF agentID[c] # "" THEN DeleteClient(clients, agentID[c]) ELSE clients
    /\ wire' = IF wire[c].type = "close" THEN [wire EXCEPT ![c].read = TRUE] ELSE wire
    /\ pinger' = [pinger EXCEPT ![c].stopped = TRUE]
    /\ UNCHANGED <<now, agents, metrics, hostnameFile, webhooks, alertVars, running, agentVars,
                   nextCleanup, agentID, pend, frames, encryptionKey, deadline>>
    /\ response' = NoResponse

\* heartbeatTicker delivers a tick into its channel, which buffers one
TickerFires(c) ==
    /\ pinger[c].pc = "select"
    /\ ~pinger[c].stopped
    /\ ~pinger[c].tick
    /\ pinger' = [pinger EXCEPT ![c].tick = TRUE]
    /\ UNCHANGED <<now, agents, metrics, hostnameFile, webhooks, alertVars, running, agentVars,
                   nextCleanup, connVars>>
    /\ response' = NoResponse

\* the goroutine after WriteControl: it returns on an error and selects again
\* otherwise; the case of stopPinger is never taken, nothing sends on that channel
PingerAfter(pc, ok) == IF ok THEN "select" ELSE "done"

\* the ping goroutine takes a tick and writes a ping: the write fails on a
\* connection the handler has closed and may fail on an open one
PingerWakes(c, ok) ==
    /\ pinger[c].pc = "select"
    /\ pinger[c].tick
    /\ handler[c] # "read" => ~ok
    /\ pinger' = [pinger EXCEPT ![c].tick = FALSE, ![c].pc = PingerAfter(@, ok)]
    /\ UNCHANGED <<now, agents, metrics, hostnameFile, webhooks, alertVars, running, agentVars,
                   nextCleanup, connVars>>
    /\ response' = NoResponse

\* time passes on, but not past a read deadline that has not been acted on
TickLink(d, limit) ==
    /\ \A c \in Conns : handler[c] = "read" => now < deadline[c]
    /\ Tick(d, limit)

\* ------------------------------------------------------------------------
\* Initial states
\* ------------------------------------------------------------------------
NoRows == [x \in {} |-> 0]

\* -key of the collector's built-in configuration, "default-encryption-key-change-me"
DefaultKey ==
    <<100, 101, 102, 97, 117, 108, 116, 45, 101, 110, 99, 114, 121, 112, 116, 105, 111, 110,
      45, 107, 101, 121, 45, 99, 104, 97, 110, 103, 101, 45, 109, 101>>

NoFrame == [type |-> "none", bytes |-> <<>>, read |-> TRUE, x |-> EmptyMessage]

\* connections upgraded at StartTime whose handlers wait in conn.ReadMessage
\* the ping goroutine waits in its select; nothing is buffered in heartbeatTicker.C
PingerInit == [pc |-> "select", tick |-> FALSE, stopped |-> FALSE]

\* var wsConnection *websocket.Conn: nil
Nil == 0

NoSend == [probe |-> "none", dial |-> "none", write |-> "none", err |-> FALSE]

\* the agent process before the first turn of its sampling loop
AgentInit ==
    /\ wsConnection = Nil
    /\ outbound = {}
    /\ broken = {}
    /\ reachable = TRUE
    /\ dials = 0
    /\ tickNo = 0
    /\ delivered = {}
    /\ sendResult = NoSend

LinkInit ==
    /\ encryptionKey = DefaultKey
    /\ wire = [c \in Conns |-> NoFrame]
    /\ deadline = [c \in Conns |-> StartTime + ReadDeadline]
    /\ handler = [c \in Conns |-> "read"]
    /\ pinger = [c \in Conns |-> PingerInit]
    /\ AgentInit

WebhookConfigs ==
    { <<>>,
      << [type |-> "serverchan", name |-> "ops", sendkey |-> "SCT1", url |-> "", enabled |-> TRUE],
         [type |-> "custom", name |-> "hook", sendkey |-> "", url |-> "http://hook", enabled |-> TRUE],
         [type |-> "serverchan", name |-> "old", sendkey |-> "SCT2", url |-> "", enabled |-> FALSE] >> }

\* main after initDB on a new database: cleanupTask runs, r.Run blocks, and the
\* statement "go alertTask()" after it is never reached
Init ==
    /\ now = StartTime
    /\ agents = NoRows
    /\ metrics = EmptyBag
    /\ hostnameFile = NoRows
    /\ webhooks = <<>>
    /\ offlineAlerted = [a \in AgentIds |-> FALSE]
    /\ highLoadStart = [a \in AgentIds |-> 0]
    /\ highLoadAlerted = [a \in AgentIds |-> FALSE]
    /\ fired = {}
    /\ loadNotes = [a \in AgentIds |-> 0]
    /\ running = {"cleanup"}
    /\ nextSweep = 0
    /\ nextCleanup = StartTime
    /\ agentID = [c \in Conns |-> ""]
    /\ clients = NoRows
    /\ pend = NoRows
    /\ frames = 0
    /\ response = NoResponse
    /\ LinkInit

\* alertTask entered: the state its loop starts from
InitAlert ==
    /\ now = StartTime
    /\ agents = NoRows
    /\ metrics = EmptyBag
    /\ hostnameFile = NoRows
    /\ webhooks \in WebhookConfigs
    /\ offlineAlerted = [a \in AgentIds |-> FALSE]
    /\ highLoadStart = [a \in AgentIds |-> 0]
    /\ highLoadAlerted = [a \in AgentIds |-> FALSE]
    /\ fired = {}
    /\ loadNotes = [a \in AgentIds |-> 0]
    /\ running = {"alert"}
    /\ nextSweep = StartTime
    /\ nextCleanup = StartTime + CleanupPeriod
    /\ agentID = [c \in Conns |-> ""]
    /\ clients = NoRows
    /\ pend = NoRows
    /\ frames = 0
    /\ response = NoResponse
    /\ LinkInit

\* ------------------------------------------------------------------------
\* Specifications
\* ------------------------------------------------------------------------
Hostnames == {"web-1", "web-2"}

RegistryMessages ==
    {Snapshot(id, 0, 45, h, "linux") : id \in AgentIds, h \in Hostnames}
    \cup {GarbageMessage}

\* bodies of PUT agents/{id}: the dashboard sends the name alone
RenameBodies ==
    { [name |-> "db-main", hostname |-> ""],
      [name |-> "db-main", hostname |-> "alias-1"],
      [name |-> "", hostname |-> ""] }

RegistryConns == {"c1"}

\* registry, store and agents API
Next ==
    \/ \E c \in RegistryConns, m \in RegistryMessages : Receive(c, m, MaxFrames)
    \/ \E c \in RegistryConns : Store(c)
    \/ \E id \in AgentIds, b \in RenameBodies : UpdateAgent(id, b.name, b.hostname)
    \/ \E id \in AgentIds : DeleteAgent(id)
    \/ GetAgents
    \/ \E id \in AgentIds : GetAgentByID(id)
    \/ Cleanup
    \/ Tick(1, StartTime + RegistryHorizon)

Spec == Init /\ [][Next]_vars

\* reads of the registry over a database that has rows from an earlier run, seconds apart
LegacyRow(lastSeen) ==
    [name |-> "web-1", last_seen |-> lastSeen, hostname |-> "web-1", platform |-> "linux",
     ip_address |-> "10.0.0.1", created_at |-> StartTime, updated_at |-> 0]

InitOnline ==
    /\ now = StartTime
    /\ agents \in {NoRows} \cup {("a1" :> LegacyRow(ls)) : ls \in {NullInt, StartTime - 1}}
    /\ metrics = EmptyBag
    /\ hostnameFile = NoRows
    /\ webhooks = <<>>
    /\ offlineAlerted = [a \in AgentIds |-> FALSE]
    /\ highLoadStart = [a \in AgentIds |-> 0]
    /\ highLoadAlerted = [a \in AgentIds |-> FALSE]
    /\ fired = {}
    /\ loadNotes = [a \in AgentIds |-> 0]
    /\ running = {"cleanup"}
    /\ nextSweep = 0
    /\ nextCleanup = StartTime
    /\ agentID = [c \in Conns |-> ""]
    /\ clients = NoRows
    /\ pend = NoRows
    /\ frames = 0
    /\ response = NoResponse
    /\ LinkInit

OnlineMessages == {Snapshot(id, 0, 45, "web-1", "linux") : id \in AgentIds}

NextOnline ==
    \/ \E m \in OnlineMessages : Receive("c1", m, OnlineFrames)
    \/ Store("c1")
    \/ GetAgents
    \/ \E id \in AgentIds : GetAgentByID(id)
    \/ Cleanup
    \/ Tick(1, StartTime + OnlineHorizon)

SpecOnline == InitOnline /\ [][NextOnline]_vars

\* range queries over the store
QueryTimes == {StartTime - 60, 0, StartTime + 60}

QueryMessages ==
    {Snapshot("a1", ts, 45, "web-1", "linux") : ts \in QueryTimes}
    \cup {Snapshot("a1", 0, 46, "web-1", "linux"), Snapshot("a2", 0, 45, "web-2", "linux")}

QueryLimits == {Absent, Given(<<"x">>), Given(<<"0">>), Given(<<"-", "1">>), Given(<<"1">>)}

QueryRequests ==
    [from : {Absent, Given(FormatInt(StartTime))},
     to : {Absent, Given(FormatInt(StartTime + 60))},
     limit : QueryLimits]
    \cup {[from |-> Given(<<"a", "b">>), to |-> Absent, limit |-> Absent]}

NextQuery ==
    \/ \E m \in QueryMessages : Receive("c1", m, QueryFrames)
    \/ Store("c1")
    \/ \E id \in AgentIds, q \in QueryRequests : GetAgentMetrics(id, q.from, q.to, q.limit)
    \/ Cleanup

SpecQuery == Init /\ [][NextQuery]_vars

\* retention: frames that carry old capture times, hours apart
RetentionMessages ==
    {Snapshot("a1", ts, 45, "web-1", "linux") :
        ts \in {0, StartTime - 8 * 24 * 60 * 60, StartTime - 31 * 24 * 60 * 60}}

NextRetention ==
    \/ \E m \in RetentionMessages : Receive("c1", m, RetentionFrames)
    \/ Store("c1")
    \/ Cleanup
    \/ Tick(CleanupPeriod, StartTime + RetentionHours * CleanupPeriod)

SpecRetention == Init /\ [][NextRetention]_vars

\* the alert sweep with agents that report and fall silent, half a minute apart
OfflineMessages == {Snapshot(id, 0, 45, "web-1", "linux") : id \in AgentIds}

NextOffline ==
    \/ \E m \in OfflineMessages : Receive("c1", m, OfflineFrames)
    \/ Store("c1")
    \/ AlertSweep
    \/ Tick(TickLen, StartTime + OfflineHorizon)

SpecOffline == InitAlert /\ [][NextOffline]_vars

\* the alert sweep with an agent whose samples carry capture times minutes apart
OverloadTimes == {StartTime + 100, StartTime + 700, StartTime + 800, StartTime + 900,
                  StartTime + 1500}

OverloadMessages ==
    {Snapshot("a1", ts, cpu, "web-1", "linux") : ts \in OverloadTimes, cpu \in {90, 95}}

\* the agent's clock moves forward: a frame is captured after the stored samples
ReceiveInOrder(c, m, cap) ==
    /\ \A r \in SamplesOf(m.agent_id) : r.timestamp < m.timestamp
    /\ Receive(c, m, cap)

NextOverload ==
    \/ \E m \in OverloadMessages : ReceiveInOrder("c1", m, OverloadFrames)
    \/ Store("c1")
    \/ AlertSweep
    \/ Tick(SweepPeriod, StartTime + OverloadHorizon)

SpecOverload == InitAlert /\ [][NextOverload]_vars

\* the codec: records sent encrypted, sent as plain text, and bytes that are no record
Keys == {<<97, 98, 99>>, DefaultKey, DefaultKey \o <<45, 114, 111, 116, 97, 116, 101, 100>>}

IVs == {[i \in 1..BlockSize |-> (37 * i + 11) % 256], [i \in 1..BlockSize |-> (i * i * 13 + 200) % 256]}

CodecSnapshots ==
    {Snapshot("a1", 0, 45, "web-1", "linux"), Snapshot("a1", StartTime + 5, 95, "web-2", "linux"),
     Snapshot("a2", StartTime - 60, 7, "web-1", ""), Snapshot("", 0, 45, "web-1", "linux")}

\* nothing, fewer bytes than an IV, 16 bytes and more that decrypt to no record,
\* and an encrypted record cut short
BadFrames ==
    {<<>>, <<1, 2, 3>>, [i \in 1..(BlockSize - 1) |-> 48 + i], [i \in 1..BlockSize |-> 7 * i],
     [i \in 1..(BlockSize + 8) |-> (91 * i) % 256],
     SubSeq(Encrypt(Marshal(Snapshot("a1", 0, 45, "web-1", "linux")), DefaultKey,
                    [i \in 1..BlockSize |-> (37 * i + 11) % 256]), 1, BlockSize + 10)}

InitCodec ==
    /\ now = StartTime
    /\ agents = NoRows
    /\ metrics = EmptyBag
    /\ hostnameFile = NoRows
    /\ webhooks = <<>>
    /\ offlineAlerted = [a \in AgentIds |-> FALSE]
    /\ highLoadStart = [a \in AgentIds |-> 0]
    /\ highLoadAlerted = [a \in AgentIds |-> FALSE]
    /\ fired = {}
    /\ loadNotes = [a \in AgentIds |-> 0]
    /\ running = {"cleanup"}
    /\ nextSweep = 0
    /\ nextCleanup = StartTime
    /\ agentID = [c \in Conns |-> ""]
    /\ clients = NoRows
    /\ pend = NoRows
    /\ frames = 0
    /\ response = NoResponse
    /\ encryptionKey \in Keys
    /\ wire = [c \in Conns |-> NoFrame]
    /\ deadline = [c \in Conns |-> StartTime + ReadDeadline]
    /\ handler = [c \in Conns |-> "read"]
    /\ pinger = [c \in Conns |-> PingerInit]
    /\ AgentInit

NextCodec ==
    \/ \E x \in CodecSnapshots, iv \in IVs : SendMetrics("c1", x, iv)
    \/ \E x \in CodecSnapshots : SendText("c1", x)
    \/ \E b \in BadFrames : SendRaw("c1", b)
    \/ ReadMessage("c1", CodecFrames)
    \/ Store("c1")

SpecCodec == InitCodec /\ [][NextCodec]_vars

\* connections over time: frames, control frames, close and deadline expiry, next
\* to operator deletes and both background tasks
LinkSnapshots == {Snapshot("a1", 0, 45, "web-1", "linux"), Snapshot("a2", 0, 45, "web-2", "linux")}

LinkIV == [i \in 1..BlockSize |-> (37 * i + 11) % 256]

\* cleanupTask runs; alertTask is looked at both entered and not entered
InitLink ==
    /\ now = StartTime
    /\ agents = NoRows
    /\ metrics = EmptyBag
    /\ hostnameFile = NoRows
    /\ webhooks = <<>>
    /\ offlineAlerted = [a \in AgentIds |-> FALSE]
    /\ highLoadStart = [a \in AgentIds |-> 0]
    /\ highLoadAlerted = [a \in AgentIds |-> FALSE]
    /\ fired = {}
    /\ loadNotes = [a \in AgentIds |-> 0]
    /\ running \in {{"cleanup"}, {"cleanup", "alert"}}
    /\ nextSweep = StartTime
    /\ nextCleanup = StartTime
    /\ agentID = [c \in Conns |-> ""]
    /\ clients = NoRows
    /\ pend = NoRows
    /\ frames = 0
    /\ response = NoResponse
    /\ LinkInit

NextLink ==
    \/ \E x \in LinkSnapshots : SendMetrics("c1", x, LinkIV)
    \/ \E type \in {"ping", "pong"} : SendControl("c1", type)
    \/ PeerClose("c1")
    \/ ReadMessage("c1", LinkFrames)
    \/ ReadControl("c1")
    \/ ReadFails("c1")
    \/ Store("c1")
    \/ \E id \in AgentIds : DeleteAgent(id)
    \/ Cleanup
    \/ AlertSweep
    \/ TickLink(TickLen, StartTime + LinkHorizon)

SpecLink == InitLink /\ [][NextLink]_vars

\* the collector as main leaves it: initDB has started cleanupTask, r.Run serves
\* until the process ends, and the go alertTask() statement behind log.Fatal(r.Run(addr))
\* is never reached, so no step adds "alert" to running
MainMessages == {Snapshot(id, 0, 45, "web-1", "linux") : id \in AgentIds}

NextMain ==
    \/ \E m \in MainMessages : Receive("c1", m, MainFrames)
    \/ Store("c1")
    \/ Cleanup
    \/ Tick(TickLen, StartTime + MainHorizon)

\* time passes, and a started task or a handler that can take its step takes it
FairMain ==
    /\ WF_vars(Tick(TickLen, StartTime + MainHorizon))
    /\ WF_vars(Cleanup)
    /\ WF_vars(Store("c1"))

SpecMain == Init /\ [][NextMain]_vars /\ FairMain

\* ------------------------------------------------------------------------
\* Two connection handlers, each on its own goroutine, with the accesses to
\* the clients map as steps of their own. The code takes no lock around them.
\* ------------------------------------------------------------------------
RaceMessages == {Snapshot(id, 0, 45, "web-1", "linux") : id \in AgentIds}

InMap(c) == handler[c] \in {"mapassign", "mapdelete"}

\* another goroutine is inside an access to clients
Racing(c) == \E d \in Conns \ {c} : InMap(d)

\* handleAgentMessage up to the map write: touch of last_seen, decode, *agentID = id
BeginMessage(c, m) ==
    /\ handler[c] = "read"
    /\ frames < RaceFrames
    /\ c \notin DOMAIN pend
    /\ m.kind = "snapshot" /\ m.agent_id # ""
    /\ frames' = frames + 1
    /\ agents' = TouchLastSeen(agents, agentID[c], now)
    /\ agentID' = [agentID EXCEPT ![c] = m.agent_id]
    /\ wire' = [wire EXCEPT ![c] = [Frame("text", Marshal(m), m) EXCEPT !.read = TRUE]]
    /\ handler' = [handler EXCEPT ![c] = "mapassign"]
    /\ UNCHANGED <<now, metrics, hostnameFile, webhooks, alertVars, taskVars, nextCleanup,
                   clients, pend, encryptionKey, deadline>>
    /\ response' = NoResponse

\* clients[*agentID] = conn and the rest of handleAgentMessage. Alone in the map
\* the write takes effect. With another goroutine in the map the access is a
\* data race: the write takes effect, or it is lost, or the runtime detects the
\* concurrent map writes and ends the process.
AssignClient(c) ==
    /\ handler[c] = "mapassign"
    /\ \E outcome \in (IF Racing(c) THEN {"written", "lost", "fatal"} ELSE {"written"}) :
         /\ clients' = IF outcome = "written"
                         THEN [x \in DOMAIN clients \cup {agentID[c]} |->
                                  IF x = agentID[c] THEN c ELSE clients[x]]
                         ELSE clients
         /\ IF outcome = "fatal"
              THEN /\ handler' = [d \in Conns |-> "fatal"]
                   /\ UNCHANGED <<agents, pend>>
              ELSE /\ handler' = [handler EXCEPT ![c] = "read"]
                   /\ agents' = UpdateAgentInfo(agents, agentID[c], wire[c].x, RemoteAddr(c), now)
                   /\ pend' = pend @@ (c :> wire[c].x)
    /\ UNCHANGED <<now, metrics, hostnameFile, webhooks, alertVars, taskVars, nextCleanup,
                   agentID, frames, encryptionKey, wire, deadline>>
    /\ response' = NoResponse

\* ReadMessage returns an error and the loop breaks; with an id the handler goes
\* on to delete(clients, agentID)
BeginClose(c) ==
    /\ handler[c] = "read"
    /\ handler' = [handler EXCEPT ![c] = IF agentID[c] # "" THEN "mapdelete" ELSE "closed"]
    /\ UNCHANGED <<now, agents, metrics, hostnameFile, webhooks, alertVars, taskVars,
                   nextCleanup, agentID, clients, pend, frames, encryptionKey, wire,
                   deadline>>
    /\ response' = NoResponse

\* delete(clients, agentID), with the same outcomes when it races
RemoveClient(c) ==
    /\ handler[c] = "mapdelete"
    /\ \E outcome \in (IF Racing(c) THEN {"written", "lost", "fatal"} ELSE {"written"}) :
         /\ clients' = IF outcome = "written" THEN DeleteClient(clients, agentID[c])
                         ELSE clients
         /\ handler' = IF outcome = "fatal" THEN [d \in Conns |-> "fatal"]
                         ELSE [handler EXCEPT ![c] = "closed"]
    /\ UNCHANGED <<now, agents, metrics, hostnameFile, webhooks, alertVars, taskVars,
                   nextCleanup, agentID, pend, frames, encryptionKey, wire, deadline>>
    /\ response' = NoResponse

NextRace ==
    \/ \E c \in Conns, m \in RaceMessages : BeginMessage(c, m)
    \/ \E c \in Conns : AssignClient(c)
    \/ \E c \in Conns : Store(c)
    \/ \E c \in Conns : BeginClose(c)
    \/ \E c \in Conns : RemoveClient(c)

SpecRace == Init /\ [][NextRace]_vars

\* ------------------------------------------------------------------------
\* Database statements that return an error: the handlers with the outcome of
\* their writes as an input
\* ------------------------------------------------------------------------
\* updateAgentInfo logs the error of its SELECT, INSERT or UPDATE and returns
UpdateAgentInfoDb(ok, tbl, id, m, addr, t) ==
    IF ok THEN UpdateAgentInfo(tbl, id, m, addr, t) ELSE tbl

HandleAgentMessageDbAbort(c, m, ok) ==
    /\ LET touched == TouchLastSeen(agents, agentID[c], now)
           routed == m.kind = "snapshot" /\ m.agent_id # ""
       IN  IF routed /\ ok
           THEN /\ agentID' = [agentID EXCEPT ![c] = m.agent_id]
                /\ clients' = [x \in (DOMAIN clients) \cup {m.agent_id} |->
                                  IF x = m.agent_id THEN c ELSE clients[x]]
                /\ agents' = UpdateAgentInfo(touched, m.agent_id, m, RemoteAddr(c), now)
                /\ pend' = pend @@ (c :> m)
           ELSE /\ agents' = touched
                /\ UNCHANGED <<agentID, clients, pend>>

\* handleAgentMessage: updateAgentInfo returns nothing, storeMetrics is called
\* whatever became of the upsert
HandleAgentMessageDb(c, m, ok) ==
    /\ LET touched == TouchLastSeen(agents, agentID[c], now)
           routed == m.kind = "snapshot" /\ m.agent_id # ""
       IN  IF routed
           THEN /\ agentID' = [agentID EXCEPT ![c] = m.agent_id]
                /\ clients' = [x \in (DOMAIN clients) \cup {m.agent_id} |->
                                  IF x = m.agent_id THEN c ELSE clients[x]]
                /\ agents' = UpdateAgentInfoDb(ok, touched, m.agent_id, m, RemoteAddr(c), now)
                /\ pend' = pend @@ (c :> m)
           ELSE /\ agents' = touched
                /\ UNCHANGED <<agentID, clients, pend>>

ReadMessageDb(c, ok, cap) ==
    /\ handler[c] = "read"
    /\ ~wire[c].read
    /\ wire[c].type \in {"text", "binary"}
    /\ now < deadline[c]
    /\ frames < cap
    /\ c \notin DOMAIN pend
    /\ frames' = frames + 1
    /\ HandleAgentMessageDb(c, Decode(wire[c].bytes, encryptionKey), ok)
    /\ wire' = [wire EXCEPT ![c].read = TRUE]
    /\ deadline' = [deadline EXCEPT ![c] = now + ReadDeadline]
    /\ handler' = [handler EXCEPT ![c] = LoopAfter(Decode(wire[c].bytes, encryptionKey))]
    /\ UNCHANGED <<now, metrics, hostnameFile, webhooks, alertVars, taskVars, nextCleanup,
                   encryptionKey>>
    /\ response' = NoResponse

\* storeMetrics returns the error of its INSERT, the handler logs it and returns
\* to the read loop
StoreDb(c, ok) ==
    /\ c \in DOMAIN pend
    /\ metrics' = IF ok THEN StoreMetrics(metrics, pend[c], now) ELSE metrics
    /\ pend' = [x \in (DOMAIN pend) \ {c} |-> pend[x]]
    /\ UNCHANGED <<now, agents, hostnameFile, webhooks, alertVars, taskVars, nextCleanup,
                   agentID, clients, frames, linkVars>>
    /\ response' = NoResponse

\* where deleteAgent meets an error: db.Begin, the first or the second DELETE, tx.Commit
DeleteFaults == {"none", "begin", "metrics", "agents", "commit"}

DeleteAgentDbPartial(id, fault) ==
    /\ IF ~HasRow(id)
       THEN /\ response' = [op |-> "delete", status |-> 404, id |-> id, nil |-> FALSE,
                            body |-> <<>>, count |-> 0]
            /\ UNCHANGED <<agents, metrics>>
       ELSE /\ metrics' = IF fault \in {"begin", "metrics"} THEN metrics
                          ELSE DeleteMetricsOf(metrics, id)
            /\ agents' = IF fault = "none" THEN [x \in (DOMAIN agents) \ {id} |-> agents[x]]
                         ELSE agents
            /\ response' = [op |-> "delete", status |-> IF fault = "none" THEN 200 ELSE 500,
                            id |-> id, nil |-> FALSE, body |-> <<>>,
                            count |-> IF fault = "none"
                                      THEN BagCardinality(metrics)
                                           - BagCardinality(DeleteMetricsOf(metrics, id))
                                      ELSE 0]
    /\ UNCHANGED <<now, hostnameFile, webhooks, alertVars, taskVars, nextCleanup, connVars>>

\* deleteAgent: every error after db.Begin is answered by tx.Rollback and status 500
DeleteAgentDb(id, fault) ==
    /\ IF ~HasRow(id)
       THEN /\ response' = [op |-> "delete", status |-> 404, id |-> id, nil |-> FALSE,
                            body |-> <<>>, count |-> 0]
            /\ UNCHANGED <<agents, metrics>>
       ELSE IF fault # "none"
       THEN /\ response' = [op |-> "delete", status |-> 500, id |-> id, nil |-> FALSE,
                            body |-> <<>>, count |-> 0]
            /\ UNCHANGED <<agents, metrics>>
       ELSE /\ metrics' = DeleteMetricsOf(metrics, id)
            /\ agents' = [x \in (DOMAIN agents) \ {id} |-> agents[x]]
            /\ response' = [op |-> "delete", status |-> 200, id |-> id, nil |-> FALSE,
                            body |-> <<>>,
                            count |-> BagCardinality(metrics)
                                      - BagCardinality(DeleteMetricsOf(metrics, id))]
    /\ UNCHANGED <<now, hostnameFile, webhooks, alertVars, taskVars, nextCleanup, connVars>>

FaultSnapshots ==
    {Snapshot("a1", 0, 45, "web-1", "linux"), Snapshot("a2", 0, 45, "web-2", "linux"),
     Snapshot("", 0, 45, "web-1", "linux")}

NextFault ==
    \/ \E x \in FaultSnapshots : SendMetrics("c1", x, LinkIV)
    \/ \E ok \in BOOLEAN : ReadMessageDb("c1", ok, FaultFrames)
    \/ \E ok \in BOOLEAN : StoreDb("c1", ok)
    \/ \E id \in AgentIds, fault \in DeleteFaults : DeleteAgentDb(id, fault)

SpecFault == Init /\ [][NextFault]_vars

\* ------------------------------------------------------------------------
\* The agent: the sampling loop of main, sendMetrics, getWebSocketConnection
\* and resetWebSocketConnection. Connections the agent dials are numbered
\* 1, 2, ... in the order of the dials.
\* ------------------------------------------------------------------------
GetWebSocketConnectionNilOnProbe(ws, n, probeOk, dialOk) ==
    IF ws # Nil
    THEN [conn |-> IF probeOk THEN ws ELSE Nil,
          closed |-> IF probeOk THEN {} ELSE {ws},
          probe |-> IF probeOk THEN "ok" ELSE "fail", dial |-> "none"]
    ELSE [conn |-> IF dialOk THEN n + 1 ELSE Nil, closed |-> {},
          probe |-> "none", dial |-> IF dialOk THEN "ok" ELSE "fail"]

\* getWebSocketConnection with handle ws after n dials: a handle that answers
\* the ping is returned; one that does not is closed and, like a nil handle,
\* replaced by a new dial in the same call; nil is the result of a failed dial
GetWebSocketConnection(ws, n, probeOk, dialOk) ==
    IF ws # Nil /\ probeOk
    THEN [conn |-> ws, closed |-> {}, probe |-> "ok", dial |-> "none"]
    ELSE [conn |-> IF dialOk THEN n + 1 ELSE Nil,
          closed |-> IF ws # Nil THEN {ws} ELSE {},
          probe |-> IF ws # Nil THEN "fail" ELSE "none",
          dial |-> IF dialOk THEN "ok" ELSE "fail"]

AfterWriteErrorKeep(conn) == conn

\* the handle after WriteMessage returned an error: resetWebSocketConnection
AfterWriteError(conn) == Nil

\* one turn of the loop of main: collectMetrics, sendMetrics, Sleep. The ping
\* passes on a sound connection and may pass or fail on a broken one, the dial
\* succeeds when the collector is reachable, the write fails on a broken one.
AgentSend(probeOk, dialOk, writeOk) ==
    /\ tickNo < AgentTicks
    /\ probeOk \in (IF wsConnection = Nil THEN {FALSE}
                    ELSE IF wsConnection \in broken THEN BOOLEAN ELSE {TRUE})
    /\ dialOk = reachable
    /\ LET g == GetWebSocketConnection(wsConnection, dials, probeOk, dialOk)
           kept == outbound \ g.closed
       IN  /\ writeOk = (g.conn # Nil /\ g.conn \notin broken)
           /\ dials' = IF g.dial = "ok" THEN dials + 1 ELSE dials
           /\ IF g.conn = Nil
              THEN /\ wsConnection' = Nil
                   /\ outbound' = kept
                   /\ delivered' = delivered
                   /\ sendResult' = [probe |-> g.probe, dial |-> g.dial, write |-> "none",
                                     err |-> TRUE]
              ELSE IF writeOk
              THEN /\ wsConnection' = g.conn
                   /\ outbound' = kept \cup {g.conn}
                   /\ delivered' = delivered \cup {tickNo}
                   /\ sendResult' = [probe |-> g.probe, dial |-> g.dial, write |-> "ok",
                                     err |-> FALSE]
              ELSE /\ wsConnection' = AfterWriteError(g.conn)
                   /\ outbound' = IF AfterWriteError(g.conn) = Nil THEN kept \ {g.conn}
                                  ELSE kept \cup {g.conn}
                   /\ delivered' = delivered
                   /\ sendResult' = [probe |-> g.probe, dial |-> g.dial, write |-> "fail",
                                     err |-> TRUE]
    /\ broken' = broken \cap outbound'
    /\ tickNo' = tickNo + 1
    /\ UNCHANGED <<now, agents, metrics, hostnameFile, webhooks, alertVars, running, pinger,
                   nextCleanup, connVars, reachable>>
    /\ response' = NoResponse

\* the transport of an open connection fails: the collector closed it or a link broke
ConnBreaks ==
    /\ \E n \in outbound \ broken : broken' = broken \cup {n}
    /\ UNCHANGED <<now, agents, metrics, hostnameFile, webhooks, alertVars, running, pinger,
                   nextCleanup, connVars, wsConnection, outbound, reachable, dials, tickNo,
                   delivered, sendResult>>
    /\ response' = NoResponse

\* the collector stops being reachable, with every open connection, or is reachable again
NetFlips ==
    /\ reachable' = ~reachable
    /\ broken' = IF reachable THEN outbound ELSE broken
    /\ UNCHANGED <<now, agents, metrics, hostnameFile, webhooks, alertVars, running, pinger,
                   nextCleanup, connVars, wsConnection, outbound, dials, tickNo, delivered,
                   sendResult>>
    /\ response' = NoResponse

AgentTurn == \E probeOk, dialOk, writeOk \in BOOLEAN : AgentSend(probeOk, dialOk, writeOk)

NextAgent ==
    \/ AgentTurn
    \/ ConnBreaks
    \/ NetFlips

\* the loop of main has no exit: its next turn comes
SpecAgent == Init /\ [][NextAgent]_vars /\ WF_vars(AgentTurn)

\* two connections that open, send records as text, close and are pinged
NextConns ==
    \/ \E c \in Conns, x \in LinkSnapshots : SendText(c, x)
    \/ \E c \in Conns : PeerClose(c)
    \/ \E c \in Conns : ReadMessage(c, ConnsFrames)
    \/ \E c \in Conns : Store(c)
    \/ \E c \in Conns : ReadFails(c)
    \/ \E c \in Conns : TickerFires(c)
    \/ \E c \in Conns, ok \in BOOLEAN : PingerWakes(c, ok)

SpecConns == Init /\ [][NextConns]_vars

\* ------------------------------------------------------------------------
\* Claims on the registry (specification Spec)
\* ------------------------------------------------------------------------
ReceiveStep == frames' = frames + 1

\* C5: name stickiness. No ingestion upsert changes the stored name of a row
\* that exists, whatever hostname the frame reports, and the name shown for a
\* row whose name is not empty stays the same as well.
C5_NameSticky ==
    [][ReceiveStep =>
          \A id \in DOMAIN agents :
             /\ id \in DOMAIN agents'
             /\ agents'[id].name = agents[id].name
             /\ agents[id].name # "" => AgentView(id, now)'.name = AgentView(id, now).name]_vars

\* C5 witness: a row renamed by the operator has since been upserted by a frame
\* that reports another hostname
C5_Witness ==
    \E id \in DOMAIN agents :
        /\ agents[id].name = "db-main"
        /\ agents[id].hostname = "web-2"
        /\ agents[id].last_seen = agents[id].updated_at

RenameStep == response'.op = "rename" /\ response'.status = 200

\* C6: a successful rename leaves hostname, platform, ip_address and last_seen
\* of the renamed row, and every other row, as they were.
C6_RenameOnlyName ==
    [][RenameStep =>
          \A id \in DOMAIN agents :
             /\ id \in DOMAIN agents'
             /\ agents'[id].hostname = agents[id].hostname
             /\ agents'[id].platform = agents[id].platform
             /\ agents'[id].ip_address = agents[id].ip_address
             /\ agents'[id].last_seen = agents[id].last_seen
             /\ id # response'.id => agents'[id] = agents[id]]_vars

DeleteStep == response'.op = "delete" /\ response'.status = 200

\* C7: cascade integrity. A successful delete leaves no sample and no row of
\* the deleted id, leaves every other row and every other agent's samples as
\* they were, and getById answers not-found exactly for ids without a row.
C7_CascadeIntegrity ==
    [][/\ DeleteStep =>
            /\ response'.id \notin DOMAIN agents'
            /\ SamplesIn(metrics', response'.id) = {}
            /\ \A id \in (DOMAIN agents) \ {response'.id} :
                  /\ id \in DOMAIN agents'
                  /\ agents'[id] = agents[id]
                  /\ SamplesIn(metrics', id) = SamplesOf(id)
                  /\ \A r \in SamplesOf(id) : metrics'[r] = metrics[r]
       /\ response'.op = "get" =>
            (response'.status = 404 <=> response'.id \notin DOMAIN agents)]_vars

\* C7 witness: an agent with stored samples has just been deleted while
\* another agent has a row and samples
C7_Witness ==
    /\ response.op = "delete"
    /\ response.status = 200
    /\ response.count >= 1
    /\ \E id \in DOMAIN agents : SamplesOf(id) # {}

\* ------------------------------------------------------------------------
\* Claims on the store (specifications SpecRetention and SpecQuery)
\* ------------------------------------------------------------------------
RetentionStep == metrics' # metrics \/ nextCleanup' # nextCleanup

\* C8: every retention pass, the hourly sweep and the purge run on append,
\* leaves in the store every sample aged at most 30 days.
C8_RetentionKeepsThirtyDays ==
    [][RetentionStep =>
          \A r \in DOMAIN metrics :
             now - r.timestamp <= 30 * 24 * 60 * 60 =>
                r \in DOMAIN metrics' /\ metrics'[r] >= metrics[r]]_vars

\* what the claim says of a request: absent from is 0, absent to is the current
\* time, and limit is 100 when missing, not a number or not positive
ClaimFrom(req) == IF req.from.present THEN ParseInt(req.from.text).val ELSE 0
ClaimTo(req, t) == IF req.to.present THEN ParseInt(req.to.text).val ELSE t
ClaimLimit(req) ==
    IF req.limit.present /\ ParseInt(req.limit.text).ok /\ ParseInt(req.limit.text).val > 0
    THEN ParseInt(req.limit.text).val
    ELSE 100

WellFormed(req) ==
    /\ req.from.present => ParseInt(req.from.text).ok
    /\ req.to.present => ParseInt(req.to.text).ok

\* stored rows of agent id with from <= timestamp <= to, one element per copy
ClaimMatches(id, req, t) ==
    RowCopies({r \in SamplesOf(id) :
                 ClaimFrom(req) <= r.timestamp /\ r.timestamp <= ClaimTo(req, t)})

Occurrences(s, v) == Cardinality({i \in 1..Len(s) : s[i] = v})

\* C9: for a registered agent and a well-formed range the answer is 200 with a
\* body that is never null and holds exactly the stored samples of the agent
\* in [from, to], most recent first, cut to the first limit rows.
C9_QueryExact ==
    (response.op = "query" /\ HasRow(response.id) /\ WellFormed(response.req)) =>
        LET req == response.req
            body == response.body
            matches == ClaimMatches(response.id, req, now)
            n == IF Cardinality(matches) <= ClaimLimit(req) THEN Cardinality(matches)
                 ELSE ClaimLimit(req)
        IN  /\ response.status = 200
            /\ ~response.nil
            /\ Len(body) = n
            /\ \A i \in 1..Len(body) : \A j \in 1..Len(body) :
                  i < j => body[i].timestamp >= body[j].timestamp
            /\ \A i \in 1..Len(body) :
                  Occurrences(body, body[i])
                     <= Cardinality({c \in matches : SampleView(c[1]) = body[i]})
            /\ \A c \in matches :
                  (\E i \in 1..Len(body) : body[i].timestamp < c[1].timestamp) =>
                     Occurrences(body, SampleView(c[1]))
                        = Cardinality({d \in matches : SampleView(d[1]) = SampleView(c[1])})

\* C9 witness: a query answered with the most recent of two samples in range
\* while a third sample of the agent lies outside the range
C9_Witness ==
    /\ response.op = "query"
    /\ response.status = 200
    /\ HasRow(response.id)
    /\ ClaimLimit(response.req) = 1
    /\ Len(response.body) = 1
    /\ Cardinality(ClaimMatches(response.id, response.req, now)) = 2
    /\ \E r \in SamplesOf(response.id) : r.timestamp < ClaimFrom(response.req)

\* ------------------------------------------------------------------------
\* Claims on reads of the registry (specification SpecOnline)
\* ------------------------------------------------------------------------
ReadStep == response'.op \in {"list", "get"}

\* C10: every agent object written by list or getById carries
\* is_online = (now - last_seen < 10) computed from the stored last_seen, false
\* when the row has no last_seen; a read writes nothing to the registry, whose
\* rows have no online column.
C10_OnlineDerived ==
    [][ReadStep =>
          /\ agents' = agents
          /\ \A id \in DOMAIN agents : "is_online" \notin DOMAIN agents[id]
          /\ response'.op = "list" => Len(response'.body) = Cardinality(DOMAIN agents)
          /\ response'.op = "get" =>
                (response'.status = 200 <=> response'.id \in DOMAIN agents)
          /\ \A i \in 1..Len(response'.body) :
                LET v == response'.body[i]
                IN  /\ v.id \in DOMAIN agents
                    /\ v.is_online <=> (agents[v.id].last_seen # NullInt
                                         /\ now - agents[v.id].last_seen < 10)]_vars

\* C10 witness: one list shows an agent seen 9 seconds ago as online and an
\* agent seen exactly 10 seconds ago as offline
C10_Witness ==
    /\ response.op = "list"
    /\ \E i, j \in 1..Len(response.body) :
          /\ response.body[i].is_online
          /\ now - agents[response.body[i].id].last_seen = 9
          /\ ~response.body[j].is_online
          /\ now - agents[response.body[j].id].last_seen = 10

\* ------------------------------------------------------------------------
\* Claims on the alert sweep (specifications SpecOffline and SpecOverload)
\* ------------------------------------------------------------------------
SweepStep == nextSweep' # nextSweep

\* time of the last sweep; before the first sweep it lies before every row
LastSweepAt == nextSweep - SweepPeriod

\* offline notifications fired for agent id in its present offline episode,
\* the time since now - last_seen went above 30
EpisodeNotes(id) ==
    {n \in fired : n.kind = "offline" /\ n.agent = id /\ n.at - agents[id].last_seen > 30}

\* C1: exactly one offline notification per offline episode. Once a sweep has
\* run during the present offline episode of an agent, one notification, and
\* no more than one, has been fired for that episode.
C1_OnePerOfflineEpisode ==
    \A id \in DOMAIN agents :
        /\ Cardinality(EpisodeNotes(id)) <= 1
        /\ LastSweepAt - agents[id].last_seen > 30 => Cardinality(EpisodeNotes(id)) = 1

FiredNow(kind, id) == \E n \in fired' \ fired : n.kind = kind /\ n.agent = id

\* the latest sample of id is above 90 and the window that is open after the
\* sweep has lasted at least 600 seconds
SustainedAfterSweep(id) ==
    /\ \A s \in LatestSamples(id) : s.cpu > 90
    /\ highLoadStart'[id] # 0
    /\ \A s \in LatestSamples(id) : s.ts - highLoadStart'[id] >= 600

\* C2: overload alerting is window based. A sweep fires an overload
\* notification for an agent only when the latest sample is above 90 and the
\* open window has lasted at least 600 seconds; once the window has lasted that
\* long exactly one notification has been fired in the episode, and never more
\* than one while the CPU stays above 90 at every sweep.
C2_SustainedOverload ==
    /\ [][SweepStep =>
             \A id \in DOMAIN agents :
                /\ FiredNow("overload", id) => SustainedAfterSweep(id)
                /\ SustainedAfterSweep(id) => loadNotes'[id] = 1]_vars
    /\ [](\A id \in AgentIds : loadNotes[id] <= 1)

\* C2 witness: the window of an agent lasted 600 seconds at an earlier sweep,
\* one notification was fired then, and a later sweep over the still loaded
\* agent has fired nothing more
C2_Witness ==
    \E n \in fired :
        /\ n.kind = "overload"
        /\ LastSweepAt > n.at
        /\ highLoadAlerted[n.agent]
        /\ loadNotes[n.agent] = 1

\* C3: a sweep that sees the latest CPU usage of an agent at or below 90 closes
\* the window and clears the alerted flag, and a sweep of an agent whose flag is
\* clear and whose window has lasted 600 seconds fires a notification.
C3_ClearedOnDrop ==
    [][SweepStep =>
          \A id \in DOMAIN agents :
             /\ (\A s \in LatestSamples(id) : s.cpu <= 90) =>
                    highLoadStart'[id] = 0 /\ ~highLoadAlerted'[id]
             /\ (SustainedAfterSweep(id) /\ ~highLoadAlerted[id]) =>
                    FiredNow("overload", id)]_vars

\* C3 witness: an agent has been notified for two overload episodes
C3_Witness ==
    \E n1, n2 \in fired :
        /\ n1.kind = "overload" /\ n2.kind = "overload"
        /\ n1.agent = n2.agent
        /\ n1.at < n2.at

\* C4: every notification fired was sent to every enabled target of
\* webhook.json, of type serverchan or custom, and to no disabled target.
C4_AllEnabledTargets ==
    \A n \in fired : n.to = {i \in 1..Len(webhooks) : webhooks[i].enabled}

\* ------------------------------------------------------------------------
\* Claims on ingestion and on the sample key (specification Spec)
\* ------------------------------------------------------------------------
\* a frame that was decoded and carries the non-empty id has just been handled
IngestedNow(id) == \E c \in (DOMAIN pend') \ (DOMAIN pend) : pend'[c].agent_id = id

\* C11: last_seen of an agent changes only when a frame that decodes and
\* carries the id of that agent is handled; a frame that does not decode, an
\* empty message and a frame of another id leave it as it was.
C11_LastSeenOnIngest ==
    [][ReceiveStep =>
          \A id \in DOMAIN agents :
             agents'[id].last_seen # agents[id].last_seen => IngestedNow(id)]_vars

\* C15: the store never holds two sample rows with the same agent_id and the
\* same timestamp.
C15_CompositeKey ==
    /\ \A r \in DOMAIN metrics : metrics[r] = 1
    /\ \A r1, r2 \in DOMAIN metrics :
          (r1.agent_id = r2.agent_id /\ r1.timestamp = r2.timestamp) => r1 = r2

\* ------------------------------------------------------------------------
\* Claims on repeated offline notifications (specification SpecOffline)
\* ------------------------------------------------------------------------
OfflineNotes(id) == {n \in fired : n.kind = "offline" /\ n.agent = id}

\* C18: offline notifications do not repeat without an observed recovery. A
\* sweep fires for an agent only while its alerted flag is clear and sets the
\* flag; the flag is cleared only by a sweep that sees now - last_seen <= 30;
\* no other step changes the flag; so no agent has two notifications fired
\* after its present last_seen + 30.
C18_NoRepeatWithoutRecovery ==
    /\ [][\A id \in AgentIds :
             /\ (SweepStep /\ HasRow(id) /\ FiredNow("offline", id)) =>
                    ~offlineAlerted[id] /\ offlineAlerted'[id]
             /\ (offlineAlerted[id] /\ ~offlineAlerted'[id]) =>
                    SweepStep /\ HasRow(id) /\ now - LastSeenForAlert(agents[id]) <= 30
             /\ (SweepStep /\ offlineAlerted[id] /\ offlineAlerted'[id]) =>
                    ~FiredNow("offline", id)
             /\ ~SweepStep => offlineAlerted'[id] = offlineAlerted[id] /\ fired' = fired]_vars
    /\ [](\A id \in DOMAIN agents : Cardinality(EpisodeNotes(id)) <= 1)

\* C18 witness: two sweeps have run over an agent that stayed offline, and one
\* notification was fired for it
C18_Witness ==
    \E id \in DOMAIN agents :
        /\ offlineAlerted[id]
        /\ Cardinality(OfflineNotes(id)) = 1
        /\ \E n \in OfflineNotes(id) : LastSweepAt > n.at /\ n.at - agents[id].last_seen > 30
        /\ LastSweepAt - agents[id].last_seen > 30

\* ------------------------------------------------------------------------
\* Claims on the transport codec (specification SpecCodec)
\* ------------------------------------------------------------------------
\* the read loop has just taken a text or binary message off connection c
ReadDataStep(c) ==
    ~wire[c].read /\ wire'[c].read /\ wire[c].type \in {"text", "binary"}

\* C12: a frame that cannot be decoded is dropped: no sample is appended, no
\* row is created, nothing is queued for the store or routed, and the handler
\* stays in its read loop; a record with an id that arrives on the connection
\* afterwards, or at any time, is ingested.
C12_BadFrameDropped ==
    [][\A c \in Conns :
          /\ (ReadDataStep(c) /\ wire[c].x.kind # "snapshot") =>
                /\ metrics' = metrics
                /\ DOMAIN agents' = DOMAIN agents
                /\ pend' = pend
                /\ clients' = clients
                /\ agentID' = agentID
                /\ handler'[c] = "read"
          /\ (ReadDataStep(c) /\ wire[c].x.kind = "snapshot" /\ wire[c].x.agent_id # "") =>
                /\ handler'[c] = "read"
                /\ pend'[c] = wire[c].x
                /\ wire[c].x.agent_id \in DOMAIN agents'
                /\ agents'[wire[c].x.agent_id].last_seen = now]_vars

\* C12 witness: 16 bytes or more that decrypt to no record were read after a
\* record was stored, and the handler is still in its loop
C12_Witness ==
    /\ wire["c1"].read
    /\ wire["c1"].x.kind = "garbage"
    /\ Len(wire["c1"].bytes) >= BlockSize
    /\ handler["c1"] = "read"
    /\ frames = 2
    /\ BagCardinality(metrics) = 1

\* C13: the collector's decode of what the agent's encrypt wrote is the
\* snapshot that was serialised, for every key and IV: decrypt gives back the
\* serialised bytes and the decoded record is the record.
C13_RoundTrip ==
    \A c \in Conns :
        (wire[c].type = "binary" /\ wire[c].x.kind = "snapshot") =>
            /\ Decrypt(wire[c].bytes, encryptionKey).ok
            /\ Decrypt(wire[c].bytes, encryptionKey).data = Marshal(wire[c].x)
            /\ Decode(wire[c].bytes, encryptionKey) = wire[c].x

\* C13 witness: a record encrypted under a key that is not 32 bytes long has
\* been read and is waiting for the store as it was sent
C13_Witness ==
    /\ wire["c1"].type = "binary"
    /\ wire["c1"].x.kind = "snapshot"
    /\ wire["c1"].read
    /\ Len(encryptionKey) > KeySize
    /\ "c1" \in DOMAIN pend
    /\ pend["c1"] = wire["c1"].x
    /\ Len(wire["c1"].bytes) > 2 * BlockSize

\* C14: a record sent as plain text and the same record sent encrypted decode
\* to the same result, and the step that reads either one updates the registry,
\* the routing map and the store queue as handling that record does.
C14_DualMode ==
    [][\A c \in Conns :
          (ReadDataStep(c) /\ wire[c].x.kind = "snapshot") =>
              /\ Decode(Marshal(wire[c].x), encryptionKey) = Decode(wire[c].bytes, encryptionKey)
              /\ HandleAgentMessage(c, wire[c].x)]_vars

\* C14 witness: the store holds a sample of a record and a record sent as plain
\* text has just been read and queued for the store
C14_Witness ==
    /\ wire["c1"].type = "text"
    /\ wire["c1"].read
    /\ "c1" \in DOMAIN pend
    /\ pend["c1"] = wire["c1"].x
    /\ BagCardinality(metrics) = 1

\* ------------------------------------------------------------------------
\* Claims on connections and on the life of a row (specification SpecLink)
\* ------------------------------------------------------------------------
\* the read loop has just taken a record that carries id off a connection
IngestedFrame(id) ==
    \E c \in Conns :
        ReadDataStep(c) /\ wire[c].x.kind = "snapshot" /\ wire[c].x.agent_id = id

ClosedStep(c) == handler[c] = "read" /\ handler'[c] = "closed"

\* C16: a row appears only in the step that ingests a frame carrying its id,
\* and such a step leaves a row of that id, also when the id was deleted
\* before; a row disappears only in the operator's delete of its id; the
\* retention pass, the alert sweep and the end of a connection, by close or by
\* deadline, leave the table as it is.
C16_RowLifecycle ==
    [][/\ \A id \in (DOMAIN agents') \ (DOMAIN agents) : id # "" /\ IngestedFrame(id)
       /\ \A id \in AgentIds : IngestedFrame(id) => id \in DOMAIN agents'
       /\ \A id \in (DOMAIN agents) \ (DOMAIN agents') : DeleteStep /\ response'.id = id
       /\ (SweepStep \/ nextCleanup' # nextCleanup \/ \E c \in Conns : ClosedStep(c)) =>
              agents' = agents]_vars

\* C16 witness: the connection of an agent ended by deadline, sweeps found the
\* agent offline and the retention pass ran, and the row of the agent is there
C16_Witness ==
    \E id \in DOMAIN agents :
        /\ handler["c1"] = "closed"
        /\ agentID["c1"] = id
        /\ now >= deadline["c1"]
        /\ offlineAlerted[id]
        /\ nextCleanup > StartTime
        /\ metrics # EmptyBag

ControlStep(c) == ~wire[c].read /\ wire'[c].read /\ wire[c].type \in {"ping", "pong"}

\* C19: the read deadline of a connection is 60 seconds after the last frame
\* received, data or control: each of them sets it anew and leaves the
\* connection open, and a connection whose handler ends has its id removed
\* from the routing map.
C19_ReadDeadline ==
    [][\A c \in Conns :
          /\ ReadDataStep(c) => deadline'[c] = now + 60 /\ handler'[c] = "read"
          /\ ControlStep(c) => deadline'[c] = now + 60 /\ handler'[c] = "read"
          /\ ClosedStep(c) =>
                /\ now >= deadline[c] \/ wire[c].type = "close"
                /\ agentID[c] \notin DOMAIN clients']_vars

\* ------------------------------------------------------------------------
\* Claims on the running collector (specification SpecMain)
\* ------------------------------------------------------------------------
\* agent id is offline and a full sweep period lies ahead within the horizon
OfflineAhead(id) ==
    /\ HasRow(id)
    /\ IsOffline(LastSeenForAlert(agents[id]), now)
    /\ now + SweepPeriod <= StartTime + MainHorizon

\* C17: in the started collector the alert sweep runs: an agent that is offline
\* leads to an offline notification for it, unless it is seen again before.
C17_SweepRuns ==
    \A id \in AgentIds :
        OfflineAhead(id) ~>
            (OfflineNotes(id) # {}
             \/ (HasRow(id) /\ ~IsOffline(LastSeenForAlert(agents[id]), now)))

\* ------------------------------------------------------------------------
\* Claims on concurrent handlers (specification SpecRace)
\* ------------------------------------------------------------------------
\* C20: the routing map is safe under concurrent handlers: at no time are two
\* handlers inside an access to the map, one registering an entry and one
\* registering or removing one, and no handler is ended by the runtime for it.
C20_MapExclusion ==
    /\ Cardinality({c \in Conns : InMap(c)}) <= 1
    /\ \A c \in Conns : handler[c] # "fatal"

\* ------------------------------------------------------------------------
\* Claims on failing database writes (specification SpecFault)
\* ------------------------------------------------------------------------
Routed(m) == m.kind = "snapshot" /\ m.agent_id # ""

\* the handler of c returns from storeMetrics
StoreStep(c) == c \in DOMAIN pend /\ c \notin DOMAIN pend'

\* C21: the upsert and the append of one frame do not depend on each other. A
\* frame with an id goes on to the append whether its upsert wrote the row or
\* failed, and the append, whether it stores the sample or fails, leaves the
\* registry, the routing map and the read loop of the connection as they are.
C21_IndependentWrites ==
    [][\A c \in Conns :
          /\ (ReadDataStep(c) /\ Routed(wire[c].x)) =>
                /\ c \in DOMAIN pend' /\ pend'[c] = wire[c].x
                /\ handler'[c] = "read"
          /\ StoreStep(c) =>
                /\ metrics' \in {metrics, StoreMetrics(metrics, pend[c], now)}
                /\ agents' = agents /\ clients' = clients /\ agentID' = agentID
                /\ handler'[c] = "read"]_vars

\* C21 witness: the frame of an agent without a row has been read, its upsert
\* failed, and its sample is on the way to the append
C21_Witness ==
    /\ "c1" \in DOMAIN pend
    /\ wire["c1"].read
    /\ response.op = "none"
    /\ pend["c1"].agent_id \notin DOMAIN agents
    /\ metrics # EmptyBag

\* C23: deleting an agent is all or nothing. A delete answered with 200 leaves
\* neither the row nor a sample of the id; a delete that meets an error, at
\* db.Begin, at either DELETE or at the commit, is answered with another status
\* and leaves the row and every sample as they were; no delete of an id with a
\* row ends with the row gone and samples of the id left.
C23_DeleteAtomic ==
    [][\A id \in AgentIds :
          (response'.op = "delete" /\ response'.id = id) =>
              /\ response'.status = 200 =>
                    HasRow(id) /\ id \notin DOMAIN agents' /\ SamplesIn(metrics', id) = {}
              /\ response'.status # 200 => agents' = agents /\ metrics' = metrics
              /\ ~(id \notin DOMAIN agents' /\ SamplesIn(metrics', id) # {}
                   /\ HasRow(id))]_vars

\* C23 witness: a delete of an agent with samples has failed; row and samples are there
C23_Witness ==
    /\ response.op = "delete"
    /\ response.status = 500
    /\ HasRow(response.id)
    /\ SamplesOf(response.id) # {}

\* C27: no orphaned sample. Once no frame is between its upsert and its append,
\* every stored sample belongs to an agent that has a row.
C27_NoOrphan ==
    pend = NoRows => \A r \in DOMAIN metrics : r.agent_id \in DOMAIN agents

\* ------------------------------------------------------------------------
\* Claims on frames without an id (specification SpecCodec)
\* ------------------------------------------------------------------------
\* C22: a frame that decodes to a record with an empty id is dropped. Reading
\* it appends no sample, queues nothing for the append, creates no row and
\* leaves the routing map and the id of the connection alone, on a connection
\* that has been identified by an earlier frame as on one that has not.
C22_EmptyIdDropped ==
    [][\A c \in Conns :
          (/\ ReadDataStep(c)
           /\ Decode(wire[c].bytes, encryptionKey).kind = "snapshot"
           /\ Decode(wire[c].bytes, encryptionKey).agent_id = "") =>
              /\ metrics' = metrics /\ pend' = pend
              /\ DOMAIN agents' = DOMAIN agents
              /\ clients' = clients /\ agentID' = agentID]_vars

\* C22 witness: an identified connection has read a record with an empty id
C22_Witness ==
    /\ wire["c1"].read
    /\ wire["c1"].type \in {"text", "binary"}
    /\ Decode(wire["c1"].bytes, encryptionKey).kind = "snapshot"
    /\ Decode(wire["c1"].bytes, encryptionKey).agent_id = ""
    /\ agentID["c1"] # ""
    /\ frames = 2

\* ------------------------------------------------------------------------
\* Claims on the agent's connection (specification SpecAgent)
\* ------------------------------------------------------------------------
\* a turn of the sampling loop has been taken
TurnStep == tickNo' # tickNo

\* C24: the agent holds at most one open connection, the one its handle names;
\* it dials only with a nil handle or after it has closed the handle's
\* connection on a failed ping, and a failed write closes the connection and
\* leaves the handle nil.
C24_OneConnection ==
    /\ [](/\ Cardinality(outbound) <= 1
          /\ wsConnection = Nil => outbound = {}
          /\ wsConnection # Nil => outbound = {wsConnection})
    /\ [][/\ dials' # dials =>
                /\ dials' = dials + 1
                /\ wsConnection = Nil
                   \/ (sendResult'.probe = "fail" /\ wsConnection \notin outbound')
          /\ (TurnStep /\ sendResult'.write = "fail") =>
                wsConnection' = Nil /\ outbound' = {}]_vars

\* C24 witness: the agent holds its second connection, dialed after a failed ping
C24_Witness ==
    /\ dials = 2
    /\ wsConnection = 2
    /\ outbound = {2}
    /\ sendResult.probe = "fail"

C26_NeverFatal ==
    /\ [](tickNo < AgentTicks => ENABLED AgentTurn)
    /\ [][TurnStep =>
             /\ tickNo' = tickNo + 1
             /\ delivered' \subseteq delivered \cup {tickNo}
             /\ sendResult'.err => delivered' = delivered
             /\ wsConnection = Nil => sendResult'.dial # "none"]_vars
    /\ \A k \in 0..(AgentTicks - 2) :
          (reachable /\ tickNo = k) ~> (~reachable \/ \E t \in delivered : t >= k)

\* C26 witness: a turn failed, its sample was not sent later, and the sample of
\* the next turn was delivered on a new connection
C26_Witness ==
    \E t \in delivered :
        /\ t > 0
        /\ (t - 1) \notin delivered
        /\ 0 \in delivered
        /\ tickNo > t + 1
        /\ dials >= 2

\* ------------------------------------------------------------------------
\* Claims on the routing map and the ping goroutine (specification SpecConns)
\* ------------------------------------------------------------------------
\* C28: the routing map is consistent. Every entry names a connection whose
\* handler is in its read loop, and the end of a handler removes the entries
\* that name its connection and no other: an id registered anew by a second
\* connection stays mapped to it when the first one ends, and a connection
\* that registered two ids leaves neither behind.
C28_MapConsistent ==
    [][/\ \A id \in DOMAIN clients' : handler'[clients'[id]] = "read"
       /\ \A c \in Conns :
             ClosedStep(c) =>
                 clients' = [id \in {x \in DOMAIN clients : clients[x] # c} |-> clients[id]]]_vars

\* a step of the ping goroutine of c
PingerStep(c) == TickerFires(c) \/ \E ok \in BOOLEAN : PingerWakes(c, ok)

\* C29: the ping goroutine ends with its connection. Once the handler of a
\* connection has left its read loop and the goroutine has no step left to
\* take, the goroutine has returned.
C29_PingerTerminates ==
    \A c \in Conns :
        (handler[c] = "closed" /\ ~ENABLED PingerStep(c)) => pinger[c].pc = "done"

\* ------------------------------------------------------------------------
\* Claims on the samples inside an overload window (specification SpecOverload)
\* ------------------------------------------------------------------------
\* C30 as stated: the overload window is sound. When a sweep fires an overload
\* notification for an agent, every stored sample of the agent with a
\* timestamp from the start of the window to the latest sample has CPU above
\* 90: a sample at or below 90 in between has closed the window.
C30_WindowSound ==
    [][SweepStep =>
          \A id \in DOMAIN agents :
              FiredNow("overload", id) =>
                  \A r \in SamplesOf(id) :
                      (/\ r.timestamp >= highLoadStart'[id]
                       /\ \A s \in LatestSamples(id) : r.timestamp <= s.ts) =>
                          r.cpu_usage > CpuThreshold]_vars

\* C30 amended: the window follows the latest sample of each sweep. A sweep
\* fires only when the latest sample is above 90 and lies 600 seconds or more
\* after the start of the window; a sweep whose latest sample is at or below 90
\* closes the window, clears the flag and fires nothing; a window is opened
\* only by a sweep, at the timestamp of a latest sample above 90. Samples that
\* are not the latest at a sweep are not looked at.
C30_WindowFollowsSweeps ==
    [][/\ SweepStep =>
             \A id \in DOMAIN agents :
                /\ FiredNow("overload", id) =>
                      \A s \in LatestSamples(id) :
                          /\ s.cpu > CpuThreshold
                          /\ highLoadStart'[id] # 0
                          /\ s.ts - highLoadStart'[id] >= OverloadDuration
                /\ (\A s \in LatestSamples(id) : s.cpu <= CpuThreshold) =>
                      /\ highLoadStart'[id] = 0
                      /\ ~highLoadAlerted'[id]
                      /\ ~FiredNow("overload", id)
                /\ highLoadStart'[id] \notin {0, highLoadStart[id]} =>
                      /\ highLoadStart[id] = 0
                      /\ \E s \in LatestSamples(id) :
                            s.cpu > CpuThreshold /\ s.ts = highLoadStart'[id]
       /\ ~SweepStep => highLoadStart' = highLoadStart]_vars

\* C30 witness: an overload notification has been fired for an agent that has
\* a sample at or below 90 stored inside the window, which no sweep saw as latest
C30_Witness ==
    \E id \in DOMAIN agents :
        /\ highLoadAlerted[id]
        /\ \E n \in fired : n.kind = "overload" /\ n.agent = id
        /\ \E r \in SamplesOf(id) :
              /\ r.cpu_usage <= CpuThreshold
              /\ r.timestamp > highLoadStart[id]
              /\ \E s \in LatestSamples(id) : r.timestamp < s.ts

====
